---- MODULE Spec2Model ----
(***************************************************************************)
(* A model of the mono camera node (src/src/mono_camera.cpp): the frame     *)
(* callback that converts and publishes arriving frames, and the dynamic    *)
(* reconfigure callback that applies a configuration to the camera session  *)
(* and rewrites the calibration record held by the calibration manager.     *)
(*                                                                          *)
(* The node's collaborators (camera session cam_, Vimba api_, publisher     *)
(* pub_, calibration manager info_man_) are modelled by their contracts;    *)
(* the node's own code is modelled statement by statement.                  *)
(***************************************************************************)
EXTENDS Integers, Sequences, FiniteSets, TLC

VARIABLES
  cam,              \* cam_: the camera session [open, config]
  info_man,         \* info_man_: the calibration manager [cam_info, camera_name]
  camera_info_url_, \* the member set once by the constructor
  subscribers,      \* what pub_.getNumSubscribers() returns
  now,              \* what ros::Time::now() returns
  published,        \* the (image, calibration) pair the running callback gave pub_.publish
  dropped,          \* TRUE once some arrived frame failed conversion
  configured,       \* TRUE once the reconfigure server made its initial call
  server_url,       \* the camera_info_url of the previous reconfiguration call
  raised,           \* TRUE once a reconfiguration call raised an exception
  last,             \* the last callback that ran: its inputs, calls and outcome
  built,            \* the constructor steps made so far
  shut,             \* the destructor calls made so far
  run               \* the reconfiguration in progress, when followed call by call

vars ==
  <<cam, info_man, camera_info_url_, subscribers, now, published, dropped,
    configured, server_url, raised, last, built, shut, run>>

----------------------------------------------------------------------------
(* Bounds of the model *)

MaxTime == 2
MaxSubscribers == 1

(* Program constants *)

RECONFIGURE_CLOSE == 3
RECONFIGURE_STOP == 1
RECONFIGURE_RUNNING == 0
\* The initial call passes 0xffffffff; the model keeps its low 31 bits.
INITIAL_LEVEL == 2147483647

----------------------------------------------------------------------------
(* Value domains *)

FallbackFrameId == "camera"

FrameIds == {"", "left"}

Urls == {"", "file://a.yaml", "bogus"}

\* The values of the camera_info_url parameter at startup
StartupUrls == {"", "file://a.yaml"}

Dims == {1, 2}

Levels == {RECONFIGURE_RUNNING, RECONFIGURE_STOP, RECONFIGURE_CLOSE, INITIAL_LEVEL}

\* The region of interest lies inside the full resolution.  The empty frame
\* id is requested with one size only: the code never relates the frame id
\* to the sizes.
Configs ==
  { c \in [frame_id : FrameIds, height : Dims, width : {2},
           binning_x : {1}, binning_y : {2},
           roi_offset_x : {3}, roi_offset_y : {4},
           roi_height : {1}, roi_width : Dims,
           camera_info_url : Urls] :
      c.roi_height <= c.height /\ c.roi_width <= c.width
      /\ (c.frame_id = "" => c.height = 2 /\ c.roi_width = 2) }

NoConfig ==
  [frame_id |-> "", height |-> 0, width |-> 0, binning_x |-> 0, binning_y |-> 0,
   roi_offset_x |-> 0, roi_offset_y |-> 0, roi_height |-> 0, roi_width |-> 0,
   camera_info_url |-> ""]

\* sensor_msgs::CameraInfo, default constructed.  calib stands for the
\* intrinsic data (D, K, R, P, distortion model) and names where it came from.
DefaultCameraInfo ==
  [stamp |-> 0, frame_id |-> "", height |-> 0, width |-> 0,
   binning_x |-> 0, binning_y |-> 0,
   roi |-> [x_offset |-> 0, y_offset |-> 0, height |-> 0, width |-> 0,
            do_rectify |-> FALSE],
   calib |-> "none"]

NoMessage == [sent |-> FALSE, img_stamp |-> 0, ci |-> DefaultCameraInfo]

----------------------------------------------------------------------------
(* The camera session cam_ (avt_vimba_camera::AvtVimbaCamera) *)

cam_stop(c) == [c EXCEPT !.open = FALSE]

cam_start(c) == [c EXCEPT !.open = TRUE]

\* The session keeps the fields it accepts: the acquisition parameters and the
\* frame id, not the calibration URL, which only the node uses.
cam_updateConfig(c, config) ==
  [c EXCEPT !.config = [config EXCEPT !.camera_info_url = ""]]

(* The calibration manager info_man_ (camera_info_manager::CameraInfoManager) *)

ValidUrls == {"", "file://a.yaml"}

\* What a calibration source holds: the intrinsic data and the image size it
\* was calibrated for; it holds no frame id, binning or region of interest.
CalibrationAt(url) ==
  [DefaultCameraInfo EXCEPT !.calib = url,
                            !.height = IF url = "" THEN 2 ELSE 1,
                            !.width = 2]

getCameraInfo(man) == man.cam_info

setCameraInfo(man, ci) == [man EXCEPT !.cam_info = ci]

setCameraName(man, cname) == [man EXCEPT !.camera_name = cname]

validateURL(url) == url \in ValidUrls

\* loaded: whether the source could be read; an unreadable source leaves the
\* record as it was.
loadCameraInfo(man, url, loaded) ==
  [man EXCEPT !.cam_info = IF loaded THEN CalibrationAt(url) ELSE @]

----------------------------------------------------------------------------
(* MonoCamera::frameCallback *)

\* a variant that converts and publishes with nobody listening
HasSubscribersAlways(n) == n >= 0

\* line 82: if (pub_.getNumSubscribers() > 0)
HasSubscribers(n) == n > 0

\* a variant that stamps the image but not the calibration record
StampedImageOnly(ci, ros_time) ==
  [sent |-> TRUE, img_stamp |-> ros_time, ci |-> ci]

\* line 86: ci.header.stamp = img.header.stamp = ros_time; line 87: the pair
StampedPair(ci, ros_time) ==
  [sent |-> TRUE, img_stamp |-> ros_time, ci |-> [ci EXCEPT !.stamp = ros_time]]

\* a variant that stamps the manager's record in place
ManagerStampedInPlace(man, msg) ==
  IF msg.sent THEN setCameraInfo(man, msg.ci) ELSE man

\* line 85: ci is a copy of the manager's record, so stamping it (line 86)
\* leaves the manager as it was
ManagerAfterFrame(man, msg) == man

\* a variant that publishes whatever the conversion returned
FrameResultUnchecked(n, converted, man, ros_time) ==
  IF HasSubscribers(n)
  THEN [calls |-> <<"getNumSubscribers", "frameToImage", "getCameraInfo", "publish">>,
        publish |-> TRUE,
        msg |-> StampedPair(getCameraInfo(man), ros_time)]
  ELSE [calls |-> <<"getNumSubscribers">>, publish |-> FALSE, msg |-> NoMessage]

\* lines 81-91: the calls the callback makes and the pair it publishes, if any
FrameResult(n, converted, man, ros_time) ==
  IF HasSubscribers(n)
  THEN IF converted
       THEN [calls |-> <<"getNumSubscribers", "frameToImage", "getCameraInfo", "publish">>,
             publish |-> TRUE,
             msg |-> StampedPair(getCameraInfo(man), ros_time)]
       ELSE [calls |-> <<"getNumSubscribers", "frameToImage">>,
             publish |-> FALSE, msg |-> NoMessage]
  ELSE [calls |-> <<"getNumSubscribers">>, publish |-> FALSE, msg |-> NoMessage]

----------------------------------------------------------------------------
(* MonoCamera::configure and MonoCamera::updateCameraInfo.                  *)
(* A run of the callback is a context x: the session, the manager, the      *)
(* local record ci, the collaborator calls made so far, and whether an      *)
(* exception is in flight.  fault names the call that throws when reached.  *)

Faults == {"none", "stop", "start", "updateConfig", "loadCameraInfo"}

\* whether the call name is among the calls made
Made(calls, name) == \E i \in 1..Len(calls) : calls[i] = name

\* One collaborator call: skipped while an exception is in flight; throws if
\* it is the faulty call; otherwise leaves the context as after.
Call(x, name, fault, after) ==
  IF x.threw THEN x
  ELSE IF fault = name
       THEN [x EXCEPT !.calls = Append(@, name), !.threw = TRUE]
       ELSE [after EXCEPT !.calls = Append(x.calls, name)]

\* lines 106-108: an empty frame id becomes "camera"
ResolveFrameId(newconfig) ==
  IF newconfig.frame_id = ""
  THEN [newconfig EXCEPT !.frame_id = FallbackFrameId]
  ELSE newconfig

\* level & mask, for the masks 3 (two low bits) and 1 (low bit)
BitAnd(level, mask) == level % (mask + 1)

\* a variant that compares the level with the two constants instead of
\* testing their bits
NeedsRestartExact(level) ==
  \/ level = RECONFIGURE_CLOSE
  \/ level = RECONFIGURE_STOP

\* lines 110 and 115: the two tests that lead to stop, start, updateConfig
NeedsRestart(level) ==
  \/ BitAnd(level, RECONFIGURE_CLOSE) # 0
  \/ BitAnd(level, RECONFIGURE_STOP) # 0

\* lines 111-113 and 116-118
RestartAndApply(x, newconfig, fault) ==
  LET x1 == Call(x, "stop", fault, [x EXCEPT !.cam = cam_stop(@)])
      x2 == Call(x1, "start", fault, [x1 EXCEPT !.cam = cam_start(@)])
  IN Call(x2, "updateConfig", fault, [x2 EXCEPT !.cam = cam_updateConfig(@, newconfig)])

\* line 120
ApplyRunning(x, newconfig, fault) ==
  Call(x, "updateConfig", fault, [x EXCEPT !.cam = cam_updateConfig(@, newconfig)])

\* lines 110-121
SessionSteps(x, newconfig, level, fault) ==
  IF NeedsRestart(level)
  THEN RestartAndApply(x, newconfig, fault)
  ELSE ApplyRunning(x, newconfig, fault)

\* lines 134-146: frame id, resolution, binning and ROI copied into ci
CopyConfig(ci, config) ==
  [ci EXCEPT !.frame_id = config.frame_id,
             !.height = config.height,
             !.width = config.width,
             !.binning_x = config.binning_x,
             !.binning_y = config.binning_y,
             !.roi = [@ EXCEPT !.x_offset = config.roi_offset_x,
                               !.y_offset = config.roi_offset_y,
                               !.height = config.roi_height,
                               !.width = config.roi_width]]

\* line 149: if (config.camera_info_url != camera_info_url_)
UrlChanged(url, member) == url # member

\* a variant that loads from the new URL without validating it
LoadUnvalidated(x, url, fault, loaded) ==
  LET x2 == Call(x, "loadCameraInfo", fault,
                 [x EXCEPT !.man = loadCameraInfo(@, url, loaded)])
      x3 == Call(x2, "getCameraInfo", fault, x2)
  IN IF x3.threw THEN x3 ELSE [x3 EXCEPT !.ci = getCameraInfo(x3.man)]

\* lines 151-156: validate, then load and take the manager's record
LoadIfValid(x, url, fault, loaded) ==
  LET x1 == Call(x, "validateURL", fault, x)
  IN IF x1.threw \/ ~validateURL(url) THEN x1
     ELSE LET x2 == Call(x1, "loadCameraInfo", fault,
                         [x1 EXCEPT !.man = loadCameraInfo(@, url, loaded)])
              x3 == Call(x2, "getCameraInfo", fault, x2)
          IN IF x3.threw THEN x3 ELSE [x3 EXCEPT !.ci = getCameraInfo(x3.man)]

\* lines 149-157
ReloadOnNewUrl(x, config, member, fault, loaded) ==
  IF UrlChanged(config.camera_info_url, member)
  THEN LET x1 == Call(x, "setCameraName", fault,
                      [x EXCEPT !.man = setCameraName(@, config.frame_id)])
       IN IF x1.threw THEN x1
          ELSE LoadIfValid(x1, config.camera_info_url, fault, loaded)
  ELSE x

\* lines 159-164
DoRectifyRoiOnly(ci, config) ==
  ci.height = config.roi_height /\ ci.width = config.roi_width

DoRectify(ci, config) ==
  LET roiMatchesCalibration ==
        ci.height = config.roi_height /\ ci.width = config.roi_width
      resolutionMatchesCalibration ==
        ci.width = config.width /\ ci.height = config.height
  IN roiMatchesCalibration \/ resolutionMatchesCalibration

\* lines 128-168
updateCameraInfo(x, config, member, fault, loaded) ==
  LET x1 == Call(x, "getCameraInfo", fault, x)
      x2 == IF x1.threw THEN x1
            ELSE [x1 EXCEPT !.ci = CopyConfig(getCameraInfo(x1.man), config)]
      x3 == ReloadOnNewUrl(x2, config, member, fault, loaded)
      x4 == IF x3.threw THEN x3
            ELSE [x3 EXCEPT !.ci.roi.do_rectify = DoRectify(x3.ci, config)]
  IN Call(x4, "setCameraInfo", fault, [x4 EXCEPT !.man = setCameraInfo(@, x4.ci)])

\* a variant that updates the calibration record before the session steps
TryBlockRecordFirst(x, newconfig, level, member, fault, loaded) ==
  LET config == ResolveFrameId(newconfig)
      x1 == updateCameraInfo(x, config, member, fault, loaded)
  IN SessionSteps(x1, config, level, fault)

\* lines 104-125: the body of the try block
TryBlock(x, newconfig, level, member, fault, loaded) ==
  LET config == ResolveFrameId(newconfig)
      x1 == SessionSteps(x, config, level, fault)
  IN updateCameraInfo(x1, config, member, fault, loaded)

\* line 123: catch (const std::exception&) ends the exception
Escapes(x) == FALSE

----------------------------------------------------------------------------
(* The state machine *)

NoCall ==
  [op |-> "none", config |-> NoConfig, level |-> 0, calls |-> <<>>,
   threw |-> FALSE, escaped |-> FALSE, loaded |-> FALSE,
   ros_time |-> 0, subs |-> 0, converted |-> FALSE]

\* no callback is running
Idle == last.op = "none"

\* no reconfiguration is being followed call by call
NoRun ==
  [pc |-> "idle", config |-> NoConfig, level |-> 0, loaded |-> FALSE,
   ci |-> DefaultCameraInfo, before |-> DefaultCameraInfo]

\* a variant of the constructor that starts the session once the callback is
\* registered and creates the publisher and the manager afterwards
ConstructorStepsStartFirst ==
  <<"api_.start", "setCallback", "param", "cam_.start", "advertiseCamera",
    "CameraInfoManager">>

\* lines 54-69: the constructor's steps up to cam_.start, in order
ConstructorSteps ==
  <<"api_.start", "advertiseCamera", "CameraInfoManager", "setCallback",
    "param", "cam_.start">>

\* a variant of the destructor that shuts the channel down first
DestructorCallsChannelFirst == <<"shutdown", "stop">>

\* lines 76-77: the destructor's calls, in order
DestructorCalls == <<"stop", "shutdown">>

\* The session invokes the registered callback for the frames that arrive
\* while it is open.
Delivers(c, steps) == c.open /\ Made(steps, "setCallback")

\* lines 49-69: the constructor up to cam_.start; the camera_info_url
\* parameter is read into the member, the manager starts with a default record
Init ==
  /\ cam = [open |-> TRUE, config |-> NoConfig]
  /\ info_man = [cam_info |-> DefaultCameraInfo, camera_name |-> "camera"]
  /\ camera_info_url_ \in StartupUrls
  /\ subscribers = 0
  /\ now = 0
  /\ published = NoMessage
  /\ dropped = FALSE
  /\ configured = FALSE
  /\ server_url = camera_info_url_
  /\ raised = FALSE
  /\ last = NoCall
  /\ built = ConstructorSteps
  /\ shut = <<>>
  /\ run = NoRun

\* lines 80-92, run by the session for a frame it delivers; elapsed is the
\* time that passes between entry and return
frameCallback(converted, elapsed) ==
  LET ros_time == now
      r == FrameResult(subscribers, converted, info_man, ros_time)
  IN /\ Idle
     /\ Delivers(cam, built)
     /\ now + elapsed <= MaxTime
     /\ now' = now + elapsed
     /\ published' = r.msg
     /\ dropped' = (dropped \/ (HasSubscribers(subscribers) /\ ~converted))
     /\ last' = [NoCall EXCEPT !.op = "frame", !.calls = r.calls,
                               !.ros_time = ros_time, !.subs = subscribers,
                               !.converted = (HasSubscribers(subscribers) /\ converted)]
     /\ info_man' = ManagerAfterFrame(info_man, r.msg)
     /\ UNCHANGED <<cam, camera_info_url_, subscribers, configured,
                    server_url, raised, built, shut, run>>

\* lines 103-126, run by the reconfigure server: first from the constructor
\* (line 72) with every level bit set, later with the levels of the changed
\* parameters
configure(newconfig, level, fault, loaded) ==
  LET x0 == [cam |-> cam, man |-> info_man, ci |-> DefaultCameraInfo,
             calls |-> <<>>, threw |-> FALSE]
      x == TryBlock(x0, newconfig, level, camera_info_url_, fault, loaded)
  IN /\ Idle
     /\ built = ConstructorSteps /\ shut = <<>>
     /\ configured = (level # INITIAL_LEVEL)
     /\ (fault # "none" => loaded)
     /\ cam' = x.cam
     /\ info_man' = x.man
     /\ configured' = TRUE
     /\ server_url' = newconfig.camera_info_url
     /\ raised' = (raised \/ x.threw)
     /\ last' = [NoCall EXCEPT !.op = "configure", !.config = newconfig,
                               !.level = level, !.calls = x.calls,
                               !.threw = x.threw,
                               !.escaped = (x.threw /\ Escapes(x)),
                               !.loaded = (loaded /\ Made(x.calls, "loadCameraInfo")
                                             /\ Made(x.calls, "setCameraInfo"))]
     /\ UNCHANGED <<camera_info_url_, subscribers, now, published, dropped,
                    built, shut, run>>

\* a consumer attaches to or detaches from the output channel
Subscribe ==
  /\ Idle
  /\ Made(built, "advertiseCamera") /\ ~Made(shut, "shutdown")
  /\ subscribers < MaxSubscribers
  /\ subscribers' = subscribers + 1
  /\ UNCHANGED <<cam, info_man, camera_info_url_, now, published, dropped,
                 configured, server_url, raised, last, built, shut, run>>

Unsubscribe ==
  /\ Idle
  /\ subscribers > 0
  /\ subscribers' = subscribers - 1
  /\ UNCHANGED <<cam, info_man, camera_info_url_, now, published, dropped,
                 configured, server_url, raised, last, built, shut, run>>

\* time passes between callbacks
Tick ==
  /\ Idle
  /\ now < MaxTime
  /\ now' = now + 1
  /\ UNCHANGED <<cam, info_man, camera_info_url_, subscribers, published,
                 dropped, configured, server_url, raised, last, built, shut, run>>

\* the callback that ran returns to its caller
Return ==
  /\ ~Idle
  /\ last' = NoCall
  /\ published' = NoMessage
  /\ UNCHANGED <<cam, info_man, camera_info_url_, subscribers, now, dropped,
                 configured, server_url, raised, built, shut, run>>

FrameArrival == \E converted \in BOOLEAN, elapsed \in 0..1 : frameCallback(converted, elapsed)

Reconfigure ==
  \E newconfig \in Configs, level \in Levels, fault \in Faults, loaded \in BOOLEAN :
    configure(newconfig, level, fault, loaded)

\* The reconfigurations tried between frame arrivals
SampleConfigs == {c \in Configs : c.frame_id = ""}

ReconfigureSample ==
  \E newconfig \in SampleConfigs,
     level \in {INITIAL_LEVEL, RECONFIGURE_RUNNING, RECONFIGURE_CLOSE},
     fault \in {"none", "start"} :
    configure(newconfig, level, fault, TRUE)

\* Frames arriving, consumers coming and going, time passing, and a few
\* reconfigurations in between
Next ==
  FrameArrival \/ ReconfigureSample \/ Subscribe \/ Unsubscribe \/ Tick \/ Return

Spec == Init /\ [][Next]_vars

\* Every reconfiguration, with no frame in between
NextReconfigure == Reconfigure \/ Return

SpecReconfigure == Init /\ [][NextReconfigure]_vars

\* line 49: the members before the constructor body runs
InitStartup ==
  /\ cam = [open |-> FALSE, config |-> NoConfig]
  /\ info_man = [cam_info |-> DefaultCameraInfo, camera_name |-> "camera"]
  /\ camera_info_url_ = ""
  /\ subscribers = 0
  /\ now = 0
  /\ published = NoMessage
  /\ dropped = FALSE
  /\ configured = FALSE
  /\ server_url = ""
  /\ raised = FALSE
  /\ last = NoCall
  /\ built = <<>>
  /\ shut = <<>>
  /\ run = NoRun

\* lines 54-69: the next step of the constructor; line 68 reads the
\* camera_info_url parameter, line 69 starts the session
Construct ==
  /\ Idle
  /\ Len(built) < Len(ConstructorSteps)
  /\ LET step == ConstructorSteps[Len(built) + 1]
     IN /\ built' = Append(built, step)
        /\ cam' = IF step = "cam_.start" THEN cam_start(cam) ELSE cam
        /\ IF step = "param"
           THEN camera_info_url_' \in StartupUrls
           ELSE camera_info_url_' = camera_info_url_
        /\ server_url' = camera_info_url_'
  /\ UNCHANGED <<info_man, subscribers, now, published, dropped, configured,
                 raised, last, shut, run>>

\* line 72: the reconfigure server calls configure as soon as it is given
\* the callback
InitialConfigure ==
  \E newconfig \in SampleConfigs : configure(newconfig, INITIAL_LEVEL, "none", TRUE)

\* lines 76-77: the next call of the destructor, which runs on a node whose
\* constructor has returned
Destruct ==
  /\ Idle
  /\ configured
  /\ Len(shut) < Len(DestructorCalls)
  /\ LET call == DestructorCalls[Len(shut) + 1]
     IN /\ shut' = Append(shut, call)
        /\ cam' = IF call = "stop" THEN cam_stop(cam) ELSE cam
  /\ UNCHANGED <<info_man, camera_info_url_, subscribers, now, published,
                 dropped, configured, server_url, raised, last, built, run>>

\* The node from the entry of its constructor to the return of its
\* destructor, with frames arriving whenever the session delivers them
NextLifecycle ==
  \/ Construct \/ InitialConfigure \/ FrameArrival \/ Subscribe
  \/ Unsubscribe \/ Tick \/ Return \/ Destruct

SpecLifecycle == InitStartup /\ [][NextLifecycle]_vars

----------------------------------------------------------------------------
(* configure followed call by call on the reconfigure server's thread,     *)
(* while the session's thread runs frame callbacks in between.  run.pc      *)
(* names the collaborator call the thread makes next.                       *)

\* lines 103-110 and 115: entry, frame id, the tests of the level
ConfigureEnter(newconfig, level, loaded) ==
  /\ Idle
  /\ run.pc = "idle"
  /\ built = ConstructorSteps /\ shut = <<>>
  /\ configured = (level # INITIAL_LEVEL)
  /\ run' = [NoRun EXCEPT !.pc = IF NeedsRestart(level) THEN "stop" ELSE "updateConfig",
                          !.config = ResolveFrameId(newconfig),
                          !.level = level,
                          !.loaded = loaded]
  /\ server_url' = newconfig.camera_info_url
  /\ UNCHANGED <<cam, info_man, camera_info_url_, subscribers, now, published,
                 dropped, configured, raised, last, built, shut>>

\* lines 111 and 116
StepStop ==
  /\ Idle
  /\ run.pc = "stop"
  /\ cam' = cam_stop(cam)
  /\ run' = [run EXCEPT !.pc = "start"]
  /\ UNCHANGED <<info_man, camera_info_url_, subscribers, now, published,
                 dropped, configured, server_url, raised, last, built, shut>>

\* lines 112 and 117
StepStart ==
  /\ Idle
  /\ run.pc = "start"
  /\ cam' = cam_start(cam)
  /\ run' = [run EXCEPT !.pc = "updateConfig"]
  /\ UNCHANGED <<info_man, camera_info_url_, subscribers, now, published,
                 dropped, configured, server_url, raised, last, built, shut>>

\* lines 113, 118 and 120
StepUpdateConfig ==
  /\ Idle
  /\ run.pc = "updateConfig"
  /\ cam' = cam_updateConfig(cam, run.config)
  /\ run' = [run EXCEPT !.pc = "getCameraInfo"]
  /\ UNCHANGED <<info_man, camera_info_url_, subscribers, now, published,
                 dropped, configured, server_url, raised, last, built, shut>>

\* lines 131-149: the record is copied out of the manager and filled from
\* the configuration; before keeps what the manager held at that moment
StepGetCameraInfo ==
  /\ Idle
  /\ run.pc = "getCameraInfo"
  /\ run' = [run EXCEPT
               !.ci = CopyConfig(getCameraInfo(info_man), run.config),
               !.before = getCameraInfo(info_man),
               !.pc = IF UrlChanged(run.config.camera_info_url, camera_info_url_)
                      THEN "setCameraName" ELSE "setCameraInfo"]
  /\ UNCHANGED <<cam, info_man, camera_info_url_, subscribers, now, published,
                 dropped, configured, server_url, raised, last, built, shut>>

\* lines 150-151
StepSetCameraName ==
  /\ Idle
  /\ run.pc = "setCameraName"
  /\ info_man' = setCameraName(info_man, run.config.frame_id)
  /\ run' = [run EXCEPT !.pc = IF validateURL(run.config.camera_info_url)
                                THEN "loadCameraInfo" ELSE "setCameraInfo"]
  /\ UNCHANGED <<cam, camera_info_url_, subscribers, now, published,
                 dropped, configured, server_url, raised, last, built, shut>>

\* line 152
StepLoadCameraInfo ==
  /\ Idle
  /\ run.pc = "loadCameraInfo"
  /\ info_man' = loadCameraInfo(info_man, run.config.camera_info_url, run.loaded)
  /\ run' = [run EXCEPT !.pc = "reread"]
  /\ UNCHANGED <<cam, camera_info_url_, subscribers, now, published,
                 dropped, configured, server_url, raised, last, built, shut>>

\* line 153
StepReread ==
  /\ Idle
  /\ run.pc = "reread"
  /\ run' = [run EXCEPT !.ci = getCameraInfo(info_man), !.pc = "setCameraInfo"]
  /\ UNCHANGED <<cam, info_man, camera_info_url_, subscribers, now, published,
                 dropped, configured, server_url, raised, last, built, shut>>

\* lines 159-167, and the return of configure
StepSetCameraInfo ==
  /\ Idle
  /\ run.pc = "setCameraInfo"
  /\ info_man' = setCameraInfo(info_man,
                    [run.ci EXCEPT !.roi.do_rectify = DoRectify(run.ci, run.config)])
  /\ run' = NoRun
  /\ configured' = TRUE
  /\ UNCHANGED <<cam, camera_info_url_, subscribers, now, published,
                 dropped, server_url, raised, last, built, shut>>

ReconfigureEnter ==
  \E newconfig \in SampleConfigs,
     level \in {INITIAL_LEVEL, RECONFIGURE_RUNNING, RECONFIGURE_CLOSE},
     loaded \in BOOLEAN :
    ConfigureEnter(newconfig, level, loaded)

\* The two threads: each step of a reconfiguration, and frame callbacks of
\* the session in between
NextConcurrent ==
  \/ ReconfigureEnter \/ StepStop \/ StepStart \/ StepUpdateConfig
  \/ StepGetCameraInfo \/ StepSetCameraName \/ StepLoadCameraInfo
  \/ StepReread \/ StepSetCameraInfo
  \/ FrameArrival \/ Subscribe \/ Return

SpecConcurrent == Init /\ [][NextConcurrent]_vars

TypeOK ==
  /\ cam.open \in BOOLEAN
  /\ subscribers \in 0..MaxSubscribers
  /\ now \in 0..MaxTime
  /\ last.op \in {"none", "frame", "configure"}
  /\ run.pc \in {"idle", "stop", "start", "updateConfig", "getCameraInfo",
                 "setCameraName", "loadCameraInfo", "reread", "setCameraInfo"}

----------------------------------------------------------------------------
(* Properties of the frame callback, checked under Spec *)

FrameRan == last.op = "frame"

\* C1: a frame that arrives while the output channel has no subscriber is
\* neither converted nor published: the callback only asks for the count.
C1_NoSubscriberNoWork ==
  (FrameRan /\ last.subs = 0) =>
    /\ ~Made(last.calls, "frameToImage")
    /\ ~Made(last.calls, "publish")
    /\ ~published.sent

C1_Witness == FrameRan /\ last.subs = 0 /\ configured

\* C2: a frame that arrives with a subscriber and converts is published with
\* the image and the calibration record both stamped with the time read at
\* the entry of the callback.
C2_PairStampedAtEntry ==
  [][(last'.op = "frame" /\ last'.subs > 0 /\ last'.converted) =>
       /\ published'.sent
       /\ published'.img_stamp = published'.ci.stamp
       /\ published'.img_stamp = now]_vars

C2_Witness ==
  /\ FrameRan /\ published.sent
  /\ published.img_stamp > 0
  /\ published.ci.stamp = published.img_stamp
  /\ now > published.img_stamp

\* C10: a frame whose conversion fails is dropped: one conversion attempt,
\* nothing published, no exception; a frame that converts after an earlier
\* one was dropped is converted and published as usual.
C10_FailedFrameDropped ==
  /\ (FrameRan /\ last.subs > 0 /\ ~last.converted) =>
       /\ last.calls = <<"getNumSubscribers", "frameToImage">>
       /\ ~published.sent
       /\ ~last.threw /\ ~last.escaped
  /\ (FrameRan /\ dropped /\ last.subs > 0 /\ last.converted) =>
       /\ last.calls = <<"getNumSubscribers", "frameToImage", "getCameraInfo", "publish">>
       /\ published.sent
       /\ published.ci = [info_man.cam_info EXCEPT !.stamp = last.ros_time]

C10_Witness == FrameRan /\ dropped /\ last.converted /\ published.sent

----------------------------------------------------------------------------
(* Properties of the reconfiguration callback, checked under SpecReconfigure *)

ConfigureRan == last.op = "configure"

\* the call that raised, when one did: the last call made
FailedCall(calls) == calls[Len(calls)]

SessionCalls == {"stop", "start", "updateConfig"}

\* the record carries the frame id, resolution, binning and ROI of config
RecordCarries(ci, config) ==
  /\ ci.frame_id = config.frame_id
  /\ ci.height = config.height /\ ci.width = config.width
  /\ ci.binning_x = config.binning_x /\ ci.binning_y = config.binning_y
  /\ ci.roi.x_offset = config.roi_offset_x /\ ci.roi.y_offset = config.roi_offset_y
  /\ ci.roi.height = config.roi_height /\ ci.roi.width = config.roi_width

\* C3: after a reconfiguration call that ran to its end, the calibration
\* record held by the manager carries the frame id, resolution, binning and
\* ROI of the configuration the call applied to the session.
C3_RecordMatchesSession ==
  (ConfigureRan /\ ~last.threw) => RecordCarries(info_man.cam_info, cam.config)

\* the size the calibration data of a record was made for
CalibratedSize(ci) == CalibrationAt(ci.calib)

\* C4: after a reconfiguration, the rectify flag of the stored record says
\* whether the size of the loaded calibration equals the requested ROI size
\* or the requested full resolution.
C4_RectifyFlagFollowsCalibration ==
  (ConfigureRan /\ ~last.threw /\ info_man.cam_info.calib # "none") =>
    (info_man.cam_info.roi.do_rectify
       <=> DoRectify(CalibratedSize(info_man.cam_info), last.config))

\* C5: a reconfiguration that asks for the empty frame id leaves "camera" as
\* the frame id of the session and of the calibration record.
C5_EmptyFrameIdFallsBack ==
  (ConfigureRan /\ ~last.threw /\ last.config.frame_id = "") =>
    /\ cam.config.frame_id = FallbackFrameId
    /\ info_man.cam_info.frame_id = FallbackFrameId

\* C6: a reconfiguration that asks for the URL the previous reconfiguration
\* asked for (the startup URL, for the first) does not reselect the profile,
\* loads nothing and leaves the loaded calibration data of the record alone.
C6_SameUrlNoReload ==
  [][(last'.op = "configure" /\ last'.config.camera_info_url = server_url) =>
       /\ ~Made(last'.calls, "setCameraName")
       /\ ~Made(last'.calls, "loadCameraInfo")
       /\ info_man'.cam_info.calib = info_man.cam_info.calib]_vars

\* C7: no exception leaves configure, and once a reconfiguration has raised,
\* a later one that raises nothing applies its configuration to an open
\* session and pushes the calibration record.
C7_RecoversAfterFailure ==
  /\ ConfigureRan => ~last.escaped
  /\ (ConfigureRan /\ raised /\ ~last.threw) =>
       /\ cam.open
       /\ cam.config = cam_updateConfig(cam, ResolveFrameId(last.config)).config
       /\ Made(last.calls, "setCameraInfo")

C9_InvalidUrlKeepsCalibration ==
  [][(/\ last'.op = "configure"
      /\ UrlChanged(last'.config.camera_info_url, camera_info_url_)
      /\ ~validateURL(last'.config.camera_info_url)) =>
       /\ ~Made(last'.calls, "loadCameraInfo")
       /\ info_man'.cam_info.calib = info_man.cam_info.calib
       /\ last'.threw => FailedCall(last'.calls) \in SessionCalls
       /\ ~last'.threw =>
            /\ FailedCall(last'.calls) = "setCameraInfo"
            /\ RecordCarries(info_man'.cam_info, ResolveFrameId(last'.config))
            /\ info_man'.cam_info.roi.do_rectify]_vars

C9_Witness ==
  /\ ConfigureRan /\ ~last.threw
  /\ UrlChanged(last.config.camera_info_url, camera_info_url_)
  /\ ~validateURL(last.config.camera_info_url)
  /\ ~Made(last.calls, "loadCameraInfo")
  /\ info_man.cam_info.calib = "file://a.yaml"
  /\ RecordCarries(info_man.cam_info, ResolveFrameId(last.config))

----------------------------------------------------------------------------
(* The order of the session steps, checked under SpecReconfigure *)

\* bit 0 is RECONFIGURE_STOP; bits 0 and 1 are RECONFIGURE_CLOSE
HasCloseOrStopBit(level) == (level % 2 = 1) \/ ((level \div 2) % 2 = 1)

\* the place of the first call of that name among the calls made
FirstCall(calls, name) ==
  CHOOSE i \in 1..Len(calls) :
    calls[i] = name /\ \A j \in 1..(i - 1) : calls[j] # name

RecordCalls ==
  {"getCameraInfo", "setCameraName", "validateURL", "loadCameraInfo", "setCameraInfo"}

\* C15: a reconfiguration that raises nothing stops and starts the session
\* before updateConfig exactly when its level has a RECONFIGURE_CLOSE or
\* RECONFIGURE_STOP bit (the same three calls for both); otherwise it calls
\* updateConfig with no stop or start; every call of the record update comes
\* after updateConfig and the last call pushes the record.
C15_SessionStepsFollowLevel ==
  (ConfigureRan /\ ~last.threw) =>
    /\ HasCloseOrStopBit(last.level) =>
         SubSeq(last.calls, 1, 3) = <<"stop", "start", "updateConfig">>
    /\ ~HasCloseOrStopBit(last.level) =>
         /\ last.calls[1] = "updateConfig"
         /\ ~Made(last.calls, "stop") /\ ~Made(last.calls, "start")
    /\ \A i \in 1..Len(last.calls) :
         last.calls[i] \in RecordCalls => FirstCall(last.calls, "updateConfig") < i
    /\ \A i \in 1..Len(last.calls) :
         last.calls[i] \in SessionCalls => i <= 3
    /\ FailedCall(last.calls) = "setCameraInfo"

C15_Witness ==
  /\ ConfigureRan /\ ~last.threw
  /\ last.level = RECONFIGURE_STOP
  /\ SubSeq(last.calls, 1, 3) = <<"stop", "start", "updateConfig">>
  /\ Made(last.calls, "loadCameraInfo")
  /\ cam.open

\* C16: a reconfiguration that loads no calibration, because it asks for the
\* startup URL or for a URL that is not valid, stores the rectify flag as
\* true whatever the requested ROI is.
C16_NoLoadRectifies ==
  (/\ ConfigureRan /\ ~last.threw
   /\ \/ last.config.camera_info_url = camera_info_url_
      \/ ~validateURL(last.config.camera_info_url)) =>
    /\ ~Made(last.calls, "loadCameraInfo")
    /\ info_man.cam_info.roi.do_rectify

C16_Witness ==
  /\ ConfigureRan /\ ~last.threw
  /\ last.config.camera_info_url = camera_info_url_
  /\ last.config.roi_width # last.config.width
  /\ info_man.cam_info.roi.width # info_man.cam_info.width
  /\ info_man.cam_info.roi.do_rectify

----------------------------------------------------------------------------
(* Startup and shutdown, checked under SpecLifecycle *)

C14_InPlaceBeforeStart ==
  (cam.open \/ FrameRan) =>
    /\ Made(built, "advertiseCamera")
    /\ Made(built, "CameraInfoManager")
    /\ Made(built, "setCallback")

C14_Witness ==
  /\ FrameRan /\ published.sent
  /\ ~configured
  /\ built = ConstructorSteps

----------------------------------------------------------------------------
(* The frame callback and the shared state, checked under Spec *)

\* C17: a frame callback, whether it publishes, skips or fails, leaves the
\* manager with its calibration record, and the session with its
\* configuration, as they were: they stay what the last reconfiguration left.
C17_FrameLeavesSharedState ==
  [][last'.op = "frame" =>
       /\ info_man' = info_man
       /\ cam' = cam
       /\ camera_info_url_' = camera_info_url_]_vars

C17_Witness ==
  /\ FrameRan /\ published.sent
  /\ published.ci.stamp > info_man.cam_info.stamp
  /\ configured
  /\ info_man.cam_info.calib # "none"
  /\ published.ci.calib = info_man.cam_info.calib

----------------------------------------------------------------------------
(* Frames during a reconfiguration, checked under SpecConcurrent *)

Unstamped(ci) == [ci EXCEPT !.stamp = 0]

\* the update has read the manager's record (line 131) and has not yet
\* pushed its own (line 167)
UpdateUnderWay ==
  run.pc \in {"setCameraName", "loadCameraInfo", "reread", "setCameraInfo"}

\* the record the update under way stores when it completes
UpdateResult ==
  LET x0 == [cam |-> cam, man |-> setCameraInfo(info_man, run.before),
             ci |-> DefaultCameraInfo, calls |-> <<>>, threw |-> FALSE]
  IN getCameraInfo(updateCameraInfo(x0, run.config, camera_info_url_, "none",
                                    run.loaded).man)

\* The steps of an update leave the manager with the record that
\* updateCameraInfo computes in one piece.
StepsAgreeWithUpdate ==
  [][(run.pc = "setCameraInfo" /\ run'.pc = "idle") =>
       getCameraInfo(info_man') = UpdateResult]_vars

\* C11: the record a frame callback publishes while an update of the
\* calibration record is under way is the record stored before that update
\* began or the record that update stores when it completes.
C11_NoRecordReadMidUpdate ==
  (FrameRan /\ published.sent /\ UpdateUnderWay) =>
    Unstamped(published.ci) \in {run.before, UpdateResult}

\* C12: in a reconfiguration whose level has a RECONFIGURE_CLOSE or
\* RECONFIGURE_STOP bit, no frame callback runs after the session stop and
\* before updateConfig has returned.
C12_NoFrameWhileApplying ==
  (FrameRan /\ HasCloseOrStopBit(run.level)) =>
    run.pc \notin {"start", "updateConfig"}

====
